---- MODULE Spec2Model ----
(***************************************************************************)
(* Model of src/extractor.py: the document text extraction pipeline        *)
(* (DocumentExtractor), single-file extraction (extract_from_file) and the *)
(* batch loop (batch_extract).                                             *)
(*                                                                         *)
(* A Python str is modelled as a sequence of tokens, each standing for a   *)
(* run of characters of a known length: a run of whitespace, a run of      *)
(* visible characters that begins and ends with a non-whitespace           *)
(* character, a page marker, or a fixed message of the program.  len(),    *)
(* str.strip() and concatenation are computed on the tokens.               *)
(***************************************************************************)
EXTENDS Integers, Sequences, FiniteSets, TLC

VARIABLES
    PYMUPDF_AVAILABLE,  \* import flags, lines 21-59
    PYPDF_AVAILABLE,
    OCR_AVAILABLE,
    DOCX_AVAILABLE,
    EXCEL_AVAILABLE,
    mode,               \* main(): "single" (args.file) or "batch" (args.batch)
    password,           \* the password argument, None when not given
    want_output,        \* single mode: whether an output path was given
    files,              \* the files to process, in enumeration order
    idx,                \* position of the file being processed (1-based)
    pc,                 \* control position
    doc,                \* facts about the file being processed
    text,               \* _extract_pdf: local text
    method_used,        \* _extract_pdf: local method_used
    result,             \* the dict returned by extract()
    exc,                \* the exception propagating, None when there is none
    calls,              \* engine invocations made for the current file
    results,            \* batch_extract: results
    successful,         \* batch_extract: successful
    failed,             \* batch_extract: failed
    outputs,            \* the output directory: path -> content written
    log                 \* per processed file: what happened to it

vars == <<PYMUPDF_AVAILABLE, PYPDF_AVAILABLE, OCR_AVAILABLE, DOCX_AVAILABLE,
          EXCEL_AVAILABLE, mode, password, want_output, files, idx, pc, doc,
          text, method_used, result, exc, calls, results, successful, failed,
          outputs, log>>

-----------------------------------------------------------------------------
(* Bounds of the model. *)

MaxPages == 1
MaxLongPages == 2
MaxFiles == 2

(* Program constants. *)

LowTextThreshold == 100
LastResortThreshold == 50
chars_per_page == 3000

None == "<None>"

-----------------------------------------------------------------------------
(* Strings. *)

Ws(n) == [k |-> "ws", v |-> "", p |-> 0, n |-> n]
Ch(n) == [k |-> "ch", v |-> "layer", p |-> 0, n |-> n]
OcrCh(n) == [k |-> "ch", v |-> "ocr", p |-> 0, n |-> n]
ErrCh(n) == [k |-> "ch", v |-> "exception", p |-> 0, n |-> n]
Msg(id, n) == [k |-> "msg", v |-> id, p |-> 0, n |-> n]
Mark(page) == [k |-> "mark", v |-> "", p |-> page, n |-> IF page < 10 THEN 14 ELSE 15]

RECURSIVE StrLen(_)
StrLen(s) == IF s = <<>> THEN 0 ELSE Head(s).n + StrLen(Tail(s))

RECURSIVE LStrip(_)
LStrip(s) ==
    IF s = <<>> THEN <<>>
    ELSE IF Head(s).k = "ws" THEN LStrip(Tail(s))
    ELSE s

RECURSIVE RStrip(_)
RStrip(s) ==
    IF s = <<>> THEN <<>>
    ELSE IF s[Len(s)].k = "ws" THEN RStrip(SubSeq(s, 1, Len(s) - 1))
    ELSE s

Strip(s) == RStrip(LStrip(s))

(* The literals of the program. *)
PasswordRequiredText == <<Msg("PDF is password protected", 66)>>
IncorrectPasswordText == <<Msg("Incorrect password provided", 29)>>
OcrNotAvailableText == <<Msg("OCR not available", 70)>>
OcrNotInstalledText == <<Msg("OCR libraries not installed", 80)>>
OcrErrorPrefix == <<Msg("OCR Error:", 12), Ws(1)>>
PagePlaceholder == <<Msg("[Error extracting page content]", 31)>>
PageHeader(page_num) == <<Ws(1), Mark(page_num), Ws(1)>>

(* long.pdf is the document of several pages; every other document has   *)
(* at most MaxPages pages.                                                 *)
IsLong == \E i \in 1..Len(files) : files[i].stem = "long"

PageBound == IF IsLong THEN MaxLongPages ELSE MaxPages

(* str(e) of an exception: empty (an exception raised without arguments)   *)
(* or a message.  A batch run draws the inputs of each file from smaller   *)
(* sets than a single run: the engines are not what it is about.           *)
ErrorTexts ==
    IF mode = "batch" \/ IsLong THEN {<<ErrCh(58)>>} ELSE {<<>>, <<ErrCh(58)>>}


-----------------------------------------------------------------------------
(* Result dicts.  A key the dict does not carry is None (method, output    *)
(* file) or Absent (the counts).                                           *)

Absent == -1

ErrorResult(msg, name) ==
    [text |-> msg, method |-> "Error", file_name |-> name, success |-> FALSE,
     char_count |-> Absent, page_count |-> Absent, output_file |-> None]

NoResult ==
    [text |-> <<>>, method |-> "<no result>", file_name |-> "", success |-> FALSE,
     char_count |-> Absent, page_count |-> Absent, output_file |-> None]

FileName(f) == f.stem \o f.ext

_estimate_pages_stripped(t) ==
    LET q == StrLen(Strip(t)) \div chars_per_page IN IF q > 1 THEN q ELSE 1

_estimate_pages(t) ==
    LET q == StrLen(t) \div chars_per_page IN IF q > 1 THEN q ELSE 1

-----------------------------------------------------------------------------
(* What the engines do on the file being processed: the inputs of the      *)
(* pipeline.                                                               *)

PageOk(t) == [ok |-> TRUE, text |-> t]
PageFail == [ok |-> FALSE, text |-> <<>>]

(* Text layers a page can carry.  With one page, 84 visible characters     *)
(* give a text of length 100 whose stripped length is 99, and 8984 give a  *)
(* text of length 9000.                                                    *)
PageTexts ==
    IF mode = "batch" THEN {<<Ch(120)>>}
    ELSE IF IsLong THEN {<<>>, <<Ch(84)>>, <<Ch(8984)>>}
    ELSE {<<>>, <<Ch(84)>>, <<Ch(85)>>, <<Ws(90)>>}

PageOutcomes ==
    (IF mode = "batch" THEN {} ELSE {PageFail}) \cup {PageOk(t) : t \in PageTexts}

RECURSIVE SeqsUpTo(_, _)
SeqsUpTo(S, n) ==
    IF n = 0 THEN {<<>>}
    ELSE LET shorter == SeqsUpTo(S, n - 1)
         IN shorter \cup {Append(q, x) : q \in {r \in shorter : Len(r) = n - 1}, x \in S}

(* One run of a direct engine: where it raises outside the per-page        *)
(* handler ("none": nowhere), and the outcome of each page it reaches.     *)
HardPoints ==
    IF mode = "batch" THEN {"none", "open"}
    ELSE {"none", "open", "auth", "iter", "close"}

(* A run that raises before the page loop reaches no page. *)
EngineRuns ==
    {[hard |-> h, pages |-> <<>>] : h \in {"open"}}
    \cup {[hard |-> h, pages |-> ps] :
            h \in HardPoints \ {"open"}, ps \in SeqsUpTo(PageOutcomes, PageBound)}

(* What rasterization and recognition do: whether convert_from_path        *)
(* raises, the outcome of image_to_string on each image, and str(e) of     *)
(* the exception raised, if any.                                           *)
OcrPageTexts ==
    IF mode = "batch" THEN {<<OcrCh(120)>>}
    ELSE {<<>>, <<OcrCh(120)>>}

OcrPageOutcomes ==
    (IF mode = "batch" THEN {} ELSE {PageFail}) \cup {PageOk(t) : t \in OcrPageTexts}

AnyFails(ps) == \E i \in 1..Len(ps) : ~ps[i].ok

OcrBehaviours ==
    {[raster |-> FALSE, pages |-> <<>>, err |-> e] : e \in ErrorTexts}
    \cup {[raster |-> TRUE, pages |-> ps, err |-> <<>>] :
            ps \in {q \in SeqsUpTo(OcrPageOutcomes, PageBound) : ~AnyFails(q)}}
    \cup {[raster |-> TRUE, pages |-> ps, err |-> e] :
            ps \in {q \in SeqsUpTo(OcrPageOutcomes, PageBound) : AnyFails(q)},
            e \in ErrorTexts}

DocPassword == "secret"
Passwords == {None, "secret", "guess"}

(* doc.authenticate / reader.decrypt, lines 146 and 195 *)
Authenticates(pw) == pw = DocPassword


-----------------------------------------------------------------------------
(* _extract_pdf.  The frame s holds the locals text and method_used, the   *)
(* dict returned early (ret), the exception leaving the function (raised)  *)
(* and the record of the engine invocations made so far (calls).           *)

NoCalls ==
    [page |-> 0, ocr |-> 0, raster |-> 0, recog |-> 0, auth |-> 0,
     gate |-> "Unknown",
     primary |-> "not run", primary_text |-> <<>>,
     secondary |-> "not run", secondary_text |-> <<>>,
     last_resort |-> FALSE, found |-> TRUE, stat_failed |-> FALSE, saved |-> FALSE,
     page_errors |-> {}]

(* the pages on which the handler of lines 161-163 and 209-211 ran *)
PageErrors(pages) == {k \in 1..Len(pages) : ~pages[k].ok}

RECURSIVE DirectPagesText_stops(_, _)
DirectPagesText_stops(pages, n) ==
    IF n = 0 THEN <<>>
    ELSE IF ~pages[n].ok THEN DirectPagesText_stops(pages, n - 1)
    ELSE DirectPagesText_stops(pages, n - 1) \o PageHeader(n) \o pages[n].text

(* text after the page loop of a direct engine over the first n pages,     *)
(* lines 157-163 and 205-211                                               *)
RECURSIVE DirectPagesText(_, _)
DirectPagesText(pages, n) ==
    IF n = 0 THEN <<>>
    ELSE DirectPagesText(pages, n - 1) \o PageHeader(n)
            \o (IF pages[n].ok THEN pages[n].text ELSE PagePlaceholder)

(* text built by the OCR page loop, lines 263-266 *)
RECURSIVE OcrPagesText(_, _)
OcrPagesText(pages, n) ==
    IF n = 0 THEN <<>>
    ELSE OcrPagesText(pages, n - 1) \o PageHeader(n) \o pages[n].text

(* number of image_to_string calls of one OCR run *)
RECURSIVE Recognized(_, _)
Recognized(pages, n) ==
    IF n > Len(pages) THEN 0
    ELSE IF ~pages[n].ok THEN 1
    ELSE 1 + Recognized(pages, n + 1)

_extract_pdf_with_ocr(b) ==
    IF ~OCR_AVAILABLE THEN OcrNotInstalledText
    ELSE IF ~b.raster THEN OcrErrorPrefix \o b.err
    ELSE IF AnyFails(b.pages) THEN OcrErrorPrefix \o b.err
    ELSE OcrPagesText(b.pages, Len(b.pages))

RunOcr_retries(s, tag, b, next) ==
    [s EXCEPT !.text = _extract_pdf_with_ocr(b),
              !.method_used = tag,
              !.calls.ocr = @ + 1,
              !.calls.raster = @ + (IF OCR_AVAILABLE THEN 1 ELSE 0),
              !.calls.recog = @ + (IF OCR_AVAILABLE /\ b.raster
                                   THEN Recognized(b.pages, 1) ELSE 0),
              !.at = IF StrLen(Strip(_extract_pdf_with_ocr(b))) < LastResortThreshold
                        /\ s.calls.ocr < 4
                     THEN s.at ELSE next]

(* text = self._extract_pdf_with_ocr(); method_used = tag, on a document   *)
(* on which OCR does b; lines 171-172, 218-219, 228-229                    *)
RunOcr(s, tag, b, next) ==
    [s EXCEPT !.text = _extract_pdf_with_ocr(b),
              !.method_used = tag,
              !.calls.ocr = @ + 1,
              !.calls.raster = @ + (IF OCR_AVAILABLE THEN 1 ELSE 0),
              !.calls.recog = @ + (IF OCR_AVAILABLE /\ b.raster
                                   THEN Recognized(b.pages, 1) ELSE 0),
              !.at = next]

NeedsOcr_inclusive(t) == StrLen(Strip(t)) <= LowTextThreshold

NeedsOcr_unstripped(t) == StrLen(t) < LowTextThreshold

(* len(text.strip()) < 100, lines 169 and 216 *)
NeedsOcr(t) == StrLen(Strip(t)) < LowTextThreshold

(* not text or len(text.strip()) < 50, line 225 *)
NeedsLastResort(t) == t = <<>> \/ StrLen(Strip(t)) < LastResortThreshold

PrimaryExcept_reraises(s) ==
    [s EXCEPT !.raised = "EngineError", !.calls.primary = "failed", !.at = "raise"]

(* except Exception of the primary engine, lines 174-176 *)
PrimaryExcept(s) ==
    [s EXCEPT !.text = <<>>, !.calls.primary = "failed", !.at = "pdf_secondary"]

(* except Exception of the secondary engine, lines 221-222 *)
SecondaryExcept(s) ==
    [s EXCEPT !.calls.secondary = "failed", !.at = "pdf_last_resort"]

ReturnEarly(s, msg, state) ==
    [s EXCEPT !.ret = ErrorResult(msg, FileName(files[idx])), !.calls.gate = state,
              !.at = "save"]

(* return of the secondary engine's block before its page loop *)
SecondaryReturn(s, msg, state) ==
    [ReturnEarly(s, msg, state) EXCEPT !.calls.secondary = "returned"]

is_encrypted_always(d) == TRUE

(* doc.is_pdf and doc.is_encrypted, line 135; reader.is_encrypted, line 184 *)
is_encrypted(d) == d.encrypted

(* lines 130-170 and 174-176: up to the call of OCR *)
PrimaryStage(s, run) ==
    IF ~PYMUPDF_AVAILABLE THEN [s EXCEPT !.at = "pdf_secondary"]
    ELSE IF run.hard = "open" THEN PrimaryExcept(s)
    ELSE IF is_encrypted(doc) /\ password = None
        THEN ReturnEarly(s, PasswordRequiredText, "ProtectedLocked")
    ELSE IF is_encrypted(doc) /\ run.hard = "auth"
        THEN PrimaryExcept([s EXCEPT !.calls.auth = @ + 1,
                                     !.calls.gate = "ProtectedLocked"])
    ELSE IF is_encrypted(doc) /\ ~Authenticates(password)
        THEN [ReturnEarly(s, IncorrectPasswordText, "WrongCredential")
                EXCEPT !.calls.auth = @ + 1]
    ELSE
        LET n == Len(run.pages)
            t == s.text \o DirectPagesText(run.pages, n)
            read == [s EXCEPT !.text = t,
                              !.calls.page = @ + n,
                              !.calls.page_errors = PageErrors(run.pages),
                              !.calls.auth = @ + (IF is_encrypted(doc) THEN 1 ELSE 0),
                              !.calls.gate = IF is_encrypted(doc) THEN "ProtectedUnlocked"
                                             ELSE "NotProtected"]
        IN  IF run.hard \in {"iter", "close"} THEN PrimaryExcept(read)
            ELSE
                LET done == [read EXCEPT !.method_used = "PyMuPDF",
                                         !.calls.primary = "completed",
                                         !.calls.primary_text = t]
                IN  IF NeedsOcr(t) THEN [done EXCEPT !.at = "primary_ocr"]
                    ELSE [done EXCEPT !.at = "pdf_secondary"]

(* lines 179-217 and 221-222: up to the call of OCR *)
SecondaryStage(s, run) ==
    IF ~(s.text = <<>> /\ PYPDF_AVAILABLE) THEN [s EXCEPT !.at = "pdf_last_resort"]
    ELSE IF run.hard = "open" THEN SecondaryExcept(s)
    ELSE IF is_encrypted(doc) /\ password = None
        THEN SecondaryReturn(s, PasswordRequiredText, "ProtectedLocked")
    ELSE IF is_encrypted(doc) /\ run.hard = "auth"
        THEN SecondaryExcept([s EXCEPT !.calls.auth = @ + 1,
                                       !.calls.gate = "ProtectedLocked"])
    ELSE IF is_encrypted(doc) /\ ~Authenticates(password)
        THEN [SecondaryReturn(s, IncorrectPasswordText, "WrongCredential")
                EXCEPT !.calls.auth = @ + 1]
    ELSE
        LET n == Len(run.pages)
            t == s.text \o DirectPagesText(run.pages, n)
            read == [s EXCEPT !.text = t,
                              !.calls.page = @ + n,
                              !.calls.page_errors = PageErrors(run.pages),
                              !.calls.auth = @ + (IF is_encrypted(doc) THEN 1 ELSE 0),
                              !.calls.gate = IF is_encrypted(doc) THEN "ProtectedUnlocked"
                                             ELSE "NotProtected"]
        IN  IF run.hard = "iter" THEN SecondaryExcept(read)
            ELSE
                LET done == [read EXCEPT !.method_used = "pypdf",
                                         !.calls.secondary = "completed",
                                         !.calls.secondary_text = t]
                IN  IF NeedsOcr(t) THEN [done EXCEPT !.at = "secondary_ocr"]
                    ELSE [done EXCEPT !.at = "pdf_last_resort"]

(* lines 224-231: up to the call of OCR *)
LastResortStage(s) ==
    IF NeedsLastResort(s.text)
    THEN IF OCR_AVAILABLE
         THEN [s EXCEPT !.calls.last_resort = TRUE, !.at = "last_resort_ocr"]
         ELSE [s EXCEPT !.text = OcrNotAvailableText, !.at = "pdf_result"]
    ELSE [s EXCEPT !.at = "pdf_result"]

(* success of the dict built at lines 233-241 *)
PdfSuccess(t) == StrLen(Strip(t)) > 0

(* lines 233-241; stat_ok: whether self.file_path.stat() finds the file *)
PdfResult(s, stat_ok) ==
    IF ~stat_ok
    THEN [s EXCEPT !.raised = "FileNotFoundError", !.calls.stat_failed = TRUE,
                   !.at = "raise"]
    ELSE [s EXCEPT !.at = "save", !.ret =
            [text |-> Strip(s.text), method |-> s.method_used,
             file_name |-> FileName(files[idx]), success |-> PdfSuccess(s.text),
             char_count |-> StrLen(s.text), page_count |-> _estimate_pages(s.text),
             output_file |-> None]]


-----------------------------------------------------------------------------
(* The other extractors.  Each is a function of what reading the file      *)
(* does: o.raises / o.open say whether and how it fails, o.err is str(e).  *)

FileTexts ==
    IF mode = "batch" THEN {<<>>, <<Ch(120)>>}
    ELSE {<<>>, <<Ws(3)>>, <<Ch(120)>>, <<Ch(40), Ws(1)>>}

ReadOutcomes ==
    {[open |-> "ok", err |-> <<>>, content |-> c, extra |-> x] :
        c \in FileTexts, x \in IF mode = "batch" THEN {0} ELSE {0, 1}}
    \cup {[open |-> how, err |-> e, content |-> <<>>, extra |-> 0] :
        how \in IF mode = "batch" THEN {"error"} ELSE {"password", "error"},
        e \in ErrorTexts}

Extracted(t, tag, count, ok) ==
    [text |-> t, method |-> tag, file_name |-> FileName(files[idx]), success |-> ok,
     char_count |-> count, page_count |-> Absent, output_file |-> None]

Failed(msg) == ErrorResult(msg, FileName(files[idx]))

(* lines 275-316; a failure to open or recognize the image is caught *)
_extract_image(o) ==
    IF ~OCR_AVAILABLE THEN Failed(<<Msg("OCR not available (image)", 60)>>)
    ELSE IF o.open # "ok"
        THEN Failed(<<Msg("Image extraction error:", 25), Ws(1)>> \o o.err)
    ELSE Extracted(Strip(o.content), "Tesseract OCR", StrLen(o.content),
                   StrLen(Strip(o.content)) > 0)

(* table_text of o.extra tables of one row, lines 352-357 *)
TableText(n) ==
    IF n = 0 THEN <<>> ELSE <<Ws(2), Ch(15), Ws(1), Ch(9), Ws(1)>>

(* lines 318-378; o.content is the joined non-blank paragraphs *)
_extract_docx(o) ==
    IF ~DOCX_AVAILABLE THEN Failed(<<Msg("python-docx not available", 61)>>)
    ELSE IF o.open = "password" THEN Failed(<<Msg("DOCX is password protected", 113)>>)
    ELSE IF o.open = "error"
        THEN Failed(<<Msg("DOCX extraction error:", 24), Ws(1)>> \o o.err)
    ELSE LET full_text == o.content \o TableText(o.extra)
         IN Extracted(Strip(full_text), "python-docx", StrLen(full_text), TRUE)

(* lines 380-426; o.extra + 1 rows when the file has content, none when    *)
(* it is empty: the row count stays below the cap of 100 data rows         *)
_extract_csv(o) ==
    IF o.open # "ok" THEN Failed(<<Msg("CSV extraction error:", 23), Ws(1)>> \o o.err)
    ELSE LET header == <<Ch(10), Ws(2)>>
             rows == IF o.content = <<>> THEN <<>>
                     ELSE <<Ch(9), Ws(1), Ch(9), Ws(1)>>
                            \o (IF o.extra = 1 THEN <<Ch(9), Ws(1)>> ELSE <<>>)
             t == header \o rows
         IN Extracted(t, "CSV Reader", StrLen(t), TRUE)

(* lines 428-486; one sheet *)
_extract_excel(o) ==
    IF ~EXCEL_AVAILABLE THEN Failed(<<Msg("Excel libraries not available", 69)>>)
    ELSE IF o.open = "password" THEN Failed(<<Msg("Excel file is password protected", 98)>>)
    ELSE IF o.open = "error"
        THEN Failed(<<Msg("Excel extraction error:", 25), Ws(1)>> \o o.err)
    ELSE LET t == <<Ch(14), Ws(1), Ch(5), Ws(2)>>
                    \o <<Ch(9), Ws(1), Ch(5), Ws(2)>> \o o.content \o <<Ws(2)>>
         IN Extracted(t, "pandas + openpyxl", StrLen(t), TRUE)

(* lines 488-515 *)
_extract_text(o) ==
    IF o.open # "ok" THEN Failed(<<Msg("Text extraction error:", 24), Ws(1)>> \o o.err)
    ELSE Extracted(o.content, "Plain Text", StrLen(o.content), TRUE)

(* lines 517-544; the dict carries no char_count *)
_extract_generic(o) ==
    IF o.open # "ok"
    THEN Failed(<<Msg("Unsupported file type:", 24), Ws(1), Ch(4)>>)
    ELSE Extracted(o.content, "Generic Text Reader", Absent,
                   StrLen(Strip(o.content)) > 0)

(* the dispatch of extract(), lines 104-117 *)
Route(ext) ==
    IF ext = ".pdf" THEN "pdf"
    ELSE IF ext \in {".jpg", ".jpeg", ".png", ".tiff", ".bmp", ".gif"} THEN "image"
    ELSE IF ext \in {".docx", ".doc"} THEN "docx"
    ELSE IF ext = ".csv" THEN "csv"
    ELSE IF ext \in {".xlsx", ".xls"} THEN "excel"
    ELSE IF ext = ".txt" THEN "text"
    ELSE "generic"

(* supported_extensions of batch_extract, lines 606-607 *)
supported_extensions ==
    {".pdf", ".jpg", ".jpeg", ".png", ".tiff", ".bmp", ".gif", ".docx", ".doc",
     ".csv", ".xlsx", ".xls", ".txt"}


-----------------------------------------------------------------------------
(* The state machine. *)

(* the encryption of the file and, once OCR has run on it, what OCR does  *)
(* on it                                                                   *)
NoOcr == [raster |-> FALSE, pages |-> <<>>, err |-> <<>>]
NoRun == [hard |-> "unknown", pages |-> <<>>]
NoRead == [open |-> "unknown", err |-> <<>>, content |-> <<>>, extra |-> 0]
NoDoc ==
    [encrypted |-> FALSE, ocr_known |-> FALSE, ocr |-> NoOcr,
     primary |-> NoRun, secondary |-> NoRun, read |-> NoRead]

File(stem, ext) == [stem |-> stem, ext |-> ext]

(* files a single run may be given: one per route *)
SingleFiles ==
    {File("a", ".pdf"), File("a", ".png"), File("a", ".docx"), File("a", ".csv"),
     File("a", ".xlsx"), File("a", ".txt"), File("a", ".dat")}

(* entries a batch directory may hold; c.md is not supported *)
DirEntries == {File("a", ".pdf"), File("a", ".txt"), File("b", ".docx"), File("c", ".md")}

Distinct(q) == \A i, j \in 1..Len(q) : i # j => q[i] # q[j]

Listings == {q \in SeqsUpTo(DirEntries, MaxFiles) : Distinct(q)}

IsSupported(f) == f.ext \in supported_extensions

(* the output file of a run: -o in single mode, <stem>.txt in batch mode *)
OutputPath(f) == IF mode = "batch" THEN f.stem \o ".txt" ELSE "out.txt"

OutputPaths == {"out.txt", "a.txt", "b.txt", "c.txt"}

NoFile == [written |-> FALSE, content |-> <<>>, by |-> 0]

(* the values of an import flag: both when a file routed to its extractor  *)
(* is processed; the flag is not read otherwise                            *)
Flag(route) ==
    IF \E i \in 1..Len(files) : Route(files[i].ext) = route THEN BOOLEAN ELSE {TRUE}

InitCommon ==
    /\ PYMUPDF_AVAILABLE \in BOOLEAN
    /\ PYPDF_AVAILABLE \in BOOLEAN
    /\ OCR_AVAILABLE \in BOOLEAN
    /\ DOCX_AVAILABLE \in Flag("docx")
    /\ EXCEL_AVAILABLE \in Flag("excel")
    /\ password \in Passwords
    /\ idx = 1
    /\ doc = NoDoc
    /\ text = <<>>
    /\ method_used = None
    /\ result = NoResult
    /\ exc = None
    /\ calls = NoCalls
    /\ results = <<>>
    /\ successful = 0
    /\ failed = 0
    /\ outputs = [path \in OutputPaths |-> NoFile]
    /\ log = <<>>

(* main() with a file argument, line 754 *)
InitSingle ==
    /\ mode = "single"
    /\ want_output \in BOOLEAN
    /\ \E f \in SingleFiles : files = <<f>>
    /\ InitCommon
    /\ pc = "extract_from_file"

(* main() run twice on the same file, with no password *)
InitTwice ==
    /\ mode = "twice"
    /\ want_output = TRUE
    /\ \E f \in SingleFiles : files = <<f>>
    /\ InitCommon
    /\ password = None
    /\ pc = "extract_from_file"

(* main() with the document of several pages, and no password *)
InitLong ==
    /\ mode = "single"
    /\ want_output = FALSE
    /\ files = <<File("long", ".pdf")>>
    /\ InitCommon
    /\ password = None
    /\ pc = "extract_from_file"

(* main() with --batch, line 725, and the enumeration of lines 602-609 *)
InitBatch ==
    /\ mode = "batch"
    /\ want_output = TRUE
    /\ \E listing \in Listings : files = SelectSeq(listing, IsSupported)
    /\ InitCommon
    /\ pc = "batch_extract"

Frame ==
    [text |-> text, method_used |-> method_used, ret |-> result, raised |-> exc,
     calls |-> calls, at |-> pc]

(* the state after a step of _extract_pdf that leaves the frame s *)
Continue(s) ==
    /\ text' = s.text
    /\ method_used' = s.method_used
    /\ result' = s.ret
    /\ exc' = s.raised
    /\ calls' = s.calls
    /\ pc' = s.at

Env == <<PYMUPDF_AVAILABLE, PYPDF_AVAILABLE, OCR_AVAILABLE, DOCX_AVAILABLE,
         EXCEL_AVAILABLE, mode, password, want_output, files>>

Batch == <<results, successful, failed, log>>

(* the second of two runs on the same file: the file system has not       *)
(* changed since the first, and the file is what it was                    *)
SecondRun == mode = "twice" /\ log # <<>>

Existence == IF SecondRun THEN {TRUE} ELSE BOOLEAN

(* the two runs are on an unprotected file *)
Encryptions == IF mode = "twice" THEN {FALSE} ELSE BOOLEAN

(* what each engine does on the file is kept for the second run *)
Kept(d) == IF mode = "twice" THEN d ELSE doc

PrimaryChoices == IF doc.primary # NoRun THEN {doc.primary} ELSE EngineRuns

SecondaryChoices ==
    IF doc.secondary # NoRun THEN {doc.secondary}
    ELSE {r \in EngineRuns : r.hard # "close"}

(* DocumentExtractor.__init__, lines 81-88, called at line 574 *)
Construct ==
    /\ pc = "extract_from_file"
    /\ \E exists \in Existence :
        IF ~exists
        THEN /\ exc' = "FileNotFoundError"
             /\ pc' = "raise"
             /\ doc' = NoDoc
             /\ calls' = [NoCalls EXCEPT !.found = FALSE]
        ELSE /\ exc' = None
             /\ pc' = "extract"
             /\ IF SecondRun THEN doc' = doc
                ELSE IF Route(files[idx].ext) = "pdf"
                THEN \E e \in Encryptions : doc' = [NoDoc EXCEPT !.encrypted = e]
                ELSE doc' = NoDoc
             /\ calls' = NoCalls
    /\ text' = <<>>
    /\ method_used' = None
    /\ result' = NoResult
    /\ UNCHANGED <<Env, idx, outputs, Batch>>

PdfPrimary ==
    /\ pc = "extract"
    /\ Route(files[idx].ext) = "pdf"
    /\ \E run \in PrimaryChoices :
        /\ Continue(PrimaryStage(Frame, run))
        /\ doc' = IF PYMUPDF_AVAILABLE THEN Kept([doc EXCEPT !.primary = run]) ELSE doc
    /\ UNCHANGED <<Env, idx, outputs, Batch>>

(* what OCR does on the file: chosen when OCR first runs on it *)
OcrChoices_fresh ==
    IF ~OCR_AVAILABLE THEN {doc.ocr} ELSE OcrBehaviours

OcrChoices ==
    IF doc.ocr_known \/ ~OCR_AVAILABLE THEN {doc.ocr} ELSE OcrBehaviours

OcrCall(tag, next) ==
    \E b \in OcrChoices :
        /\ Continue(RunOcr(Frame, tag, b, next))
        /\ doc' = [doc EXCEPT !.ocr = b, !.ocr_known = OCR_AVAILABLE]
        /\ UNCHANGED <<Env, idx, outputs, Batch>>

PdfPrimaryOcr ==
    /\ pc = "primary_ocr"
    /\ OcrCall("PyMuPDF + OCR", "pdf_secondary")

PdfSecondary ==
    /\ pc = "pdf_secondary"
    /\ \E run \in SecondaryChoices :
        /\ Continue(SecondaryStage(Frame, run))
        /\ doc' = IF text = <<>> /\ PYPDF_AVAILABLE
                  THEN Kept([doc EXCEPT !.secondary = run]) ELSE doc
    /\ UNCHANGED <<Env, idx, outputs, Batch>>

PdfSecondaryOcr ==
    /\ pc = "secondary_ocr"
    /\ OcrCall("pypdf + OCR", "pdf_last_resort")

PdfLastResort ==
    /\ pc = "pdf_last_resort"
    /\ Continue(LastResortStage(Frame))
    /\ UNCHANGED <<Env, idx, doc, outputs, Batch>>

PdfLastResortOcr ==
    /\ pc = "last_resort_ocr"
    /\ OcrCall("OCR (Tesseract)", "pdf_result")

PdfReturn ==
    /\ pc = "pdf_result"
    /\ \E stat_ok \in Existence : Continue(PdfResult(Frame, stat_ok))
    /\ UNCHANGED <<Env, idx, doc, outputs, Batch>>

(* the extractor extract() routes a file other than a PDF to, applied to   *)
(* what reading the file does; lines 106-117                               *)
ConvertFile(route, o) ==
    CASE route = "image" -> _extract_image(o)
      [] route = "docx" -> _extract_docx(o)
      [] route = "csv" -> _extract_csv(o)
      [] route = "excel" -> _extract_excel(o)
      [] route = "text" -> _extract_text(o)
      [] OTHER -> _extract_generic(o)

ReadChoices == IF doc.read # NoRead THEN {doc.read} ELSE ReadOutcomes

ExtractOther ==
    /\ pc = "extract"
    /\ Route(files[idx].ext) # "pdf"
    /\ \E o \in ReadChoices :
        /\ result' = ConvertFile(Route(files[idx].ext), o)
        /\ doc' = Kept([doc EXCEPT !.read = o])
    /\ pc' = "save"
    /\ UNCHANGED <<Env, idx, text, method_used, exc, calls, outputs, Batch>>

ShouldSave_anyResult(r) == want_output

(* if output_file and result['success'], line 578 *)
ShouldSave(r) == want_output /\ r.success

FileContent_stripped(r) == Strip(r.text)

(* what f.write(result['text']) leaves in the file, lines 582-583: the     *)
(* characters of the text, written as UTF-8 with no newline translation    *)
FileContent(r) == r.text

(* extract_from_file after extract(), lines 577-588 *)
Save ==
    /\ pc = "save"
    /\ IF ShouldSave(result)
       THEN LET path == OutputPath(files[idx])
            IN /\ outputs' = [outputs EXCEPT ![path] =
                        [written |-> TRUE, content |-> FileContent(result), by |-> idx]]
               /\ result' = [result EXCEPT !.output_file = path]
               /\ calls' = [calls EXCEPT !.saved = TRUE]
       ELSE UNCHANGED <<outputs, result, calls>>
    /\ pc' = "return"
    /\ UNCHANGED <<Env, idx, doc, text, method_used, exc, Batch>>

-----------------------------------------------------------------------------
(* Single-file extraction, main() lines 752-782. *)

SingleDone ==
    /\ mode # "batch"
    /\ pc = "return"
    /\ pc' = "done"
    /\ UNCHANGED <<Env, idx, doc, text, method_used, result, exc, calls, outputs, Batch>>

(* nothing in main() catches *)
SingleCrash ==
    /\ mode # "batch"
    /\ pc = "raise"
    /\ pc' = "crashed"
    /\ UNCHANGED <<Env, idx, doc, text, method_used, result, exc, calls, outputs, Batch>>

PdfExtraction ==
    \/ Construct
    \/ PdfPrimary
    \/ PdfPrimaryOcr
    \/ PdfSecondary
    \/ PdfSecondaryOcr
    \/ PdfLastResort
    \/ PdfLastResortOcr
    \/ PdfReturn
    \/ Save

Extraction == PdfExtraction \/ ExtractOther

NextSingle == Extraction \/ SingleDone \/ SingleCrash

SpecSingle == InitSingle /\ [][NextSingle]_vars

(* main() runs to its end: no step of it waits on anything *)
FairSingle == SpecSingle /\ WF_vars(NextSingle)

(* main() is run again on the same file once the first run has ended;    *)
(* what the first run returned is kept in log                              *)
Rerun ==
    /\ mode = "twice"
    /\ pc = "done"
    /\ log = <<>>
    /\ log' = <<[threw |-> FALSE, success |-> result.success, saved |-> calls.saved,
                 text |-> result.text, method |-> result.method]>>
    /\ pc' = "extract_from_file"
    /\ UNCHANGED <<Env, idx, doc, text, method_used, result, exc, calls, outputs,
                   results, successful, failed>>

NextTwice == NextSingle \/ Rerun

SpecTwice == InitTwice /\ [][NextTwice]_vars

(* the extraction of the document of several pages *)
NextLong == PdfExtraction \/ SingleDone \/ SingleCrash

SpecLong == InitLong /\ [][NextLong]_vars

-----------------------------------------------------------------------------
(* batch_extract, lines 592-647. *)

(* if not files: return, lines 611-613 *)
BatchEmpty ==
    /\ mode = "batch"
    /\ pc = "batch_extract"
    /\ files = <<>>
    /\ pc' = "batch_no_files"
    /\ UNCHANGED <<Env, idx, doc, text, method_used, result, exc, calls, outputs, Batch>>

(* lines 617-624: the counters, and the first iteration of the loop *)
BatchStart ==
    /\ mode = "batch"
    /\ pc = "batch_extract"
    /\ files # <<>>
    /\ results' = <<>>
    /\ successful' = 0
    /\ failed' = 0
    /\ idx' = 1
    /\ pc' = "extract_from_file"
    /\ UNCHANGED <<Env, doc, text, method_used, result, exc, calls, outputs, log>>

(* for file in files: the next iteration, or the end of the loop *)
LoopNext ==
    IF idx < Len(files)
    THEN idx' = idx + 1 /\ pc' = "extract_from_file"
    ELSE idx' = idx /\ pc' = "batch_summary"

(* the locals of the call of extract_from_file end with it *)
FrameDropped ==
    /\ doc' = NoDoc
    /\ text' = <<>>
    /\ method_used' = None
    /\ result' = NoResult
    /\ calls' = NoCalls

(* lines 625-635: extract_from_file returned *)
BatchAppend ==
    /\ mode = "batch"
    /\ pc = "return"
    /\ results' = Append(results, result)
    /\ IF result.success
       THEN successful' = successful + 1 /\ failed' = failed
       ELSE failed' = failed + 1 /\ successful' = successful
    /\ log' = Append(log, [threw |-> FALSE, success |-> result.success,
                           saved |-> calls.saved])
    /\ LoopNext
    /\ FrameDropped
    /\ UNCHANGED <<Env, exc, outputs>>

BatchExcept_propagates ==
    /\ mode = "batch"
    /\ pc = "raise"
    /\ pc' = "crashed"
    /\ UNCHANGED <<Env, idx, doc, text, method_used, result, exc, calls, outputs, Batch>>

BatchExcept_uncounted ==
    /\ mode = "batch"
    /\ pc = "raise"
    /\ failed' = failed
    /\ exc' = None
    /\ log' = Append(log, [threw |-> TRUE, success |-> FALSE, saved |-> calls.saved])
    /\ LoopNext
    /\ FrameDropped
    /\ UNCHANGED <<Env, outputs, results, successful>>

(* except Exception, lines 637-639: extract_from_file raised *)
BatchExcept ==
    /\ mode = "batch"
    /\ pc = "raise"
    /\ failed' = failed + 1
    /\ exc' = None
    /\ log' = Append(log, [threw |-> TRUE, success |-> FALSE, saved |-> calls.saved])
    /\ LoopNext
    /\ FrameDropped
    /\ UNCHANGED <<Env, outputs, results, successful>>

(* the summary printed at lines 641-647 *)
Summary == [total |-> Len(results), successful |-> successful, failed |-> failed]

PrintSummary ==
    /\ mode = "batch"
    /\ pc = "batch_summary"
    /\ pc' = "batch_done"
    /\ UNCHANGED <<Env, idx, doc, text, method_used, result, exc, calls, outputs, Batch>>

BatchStep == BatchEmpty \/ BatchStart \/ BatchAppend \/ BatchExcept \/ PrintSummary

NextBatch == Extraction \/ BatchStep

SpecBatch == InitBatch /\ [][NextBatch]_vars

(* batch_extract runs to its end: no step of it waits on anything *)
FairBatch == SpecBatch /\ WF_vars(NextBatch)


-----------------------------------------------------------------------------
(* Properties. *)

IsPdf == idx \in 1..Len(files) /\ Route(files[idx].ext) = "pdf"

(* extract() has returned its dict *)
Returned == pc \in {"save", "return", "done"}

(* the dict was built at the end of _extract_pdf, lines 233-241 *)
BuiltAtEnd == IsPdf /\ Returned /\ result.page_count # Absent

(* C1: a PDF that is encrypted, extracted with no password, under every   *)
(* combination of available engines: no page is extracted and OCR does    *)
(* not run, and the dict returned has success False and method 'Error'.   *)
C1_LockedNoCredential ==
    (IsPdf /\ doc.encrypted /\ password = None) =>
        /\ calls.page = 0
        /\ calls.raster = 0
        /\ Returned => (~result.success /\ result.method = "Error")

(* C2: a PDF that is encrypted, extracted with a password that is not its *)
(* password: no page is extracted and OCR does not run, and the dict      *)
(* returned has success False and a text other than that of the           *)
(* no-password case.                                                      *)
C2_LockedWrongCredential ==
    (IsPdf /\ doc.encrypted /\ password # None /\ ~Authenticates(password)) =>
        /\ calls.page = 0
        /\ calls.raster = 0
        /\ Returned => (~result.success /\ result.text # PasswordRequiredText)

(* C3, as claimed: when the primary engine completes with a text of       *)
(* length at least 100, _extract_pdf_with_ocr is never called and the     *)
(* method returned is "PyMuPDF".                                          *)
C3_ByLength ==
    (IsPdf /\ calls.primary = "completed"
        /\ StrLen(calls.primary_text) >= LowTextThreshold) =>
        /\ calls.ocr = 0
        /\ Returned => result.method = "PyMuPDF"

(* C3, amended: when the primary engine completes with a text whose       *)
(* length after strip() is at least 100, _extract_pdf_with_ocr is never   *)
(* called and the method returned is "PyMuPDF".                           *)
C3_ByStrippedLength ==
    (IsPdf /\ calls.primary = "completed"
        /\ StrLen(Strip(calls.primary_text)) >= LowTextThreshold) =>
        /\ calls.ocr = 0
        /\ Returned => result.method = "PyMuPDF"

C3_Witness ==
    /\ IsPdf
    /\ pc = "done"
    /\ calls.primary = "completed"
    /\ StrLen(Strip(calls.primary_text)) = LowTextThreshold
    /\ result.method = "PyMuPDF"

(* C4: every dict returned by extract(), for every route and every        *)
(* combination of engines: success implies a text of more than 0          *)
(* characters and a method other than 'Error'.                            *)
C4_SuccessHasText ==
    (Returned /\ result.success) =>
        (StrLen(result.text) > 0 /\ result.method # "Error")

(* no direct engine completed with a text that passes the quality check *)
NoUsableDirectText ==
    /\ calls.primary = "completed" => NeedsOcr(calls.primary_text)
    /\ calls.secondary = "completed" => NeedsOcr(calls.secondary_text)

IsUnavailableText(t) == t \in {OcrNotAvailableText, OcrNotInstalledText}

(* C5: a PDF from which no direct engine produced usable text, with OCR   *)
(* unavailable: the dict returned has success False and its text is an    *)
(* unavailability message.                                                *)
C5_OcrUnavailableFails ==
    (BuiltAtEnd /\ NoUsableDirectText /\ ~OCR_AVAILABLE) =>
        (~result.success /\ IsUnavailableText(result.text))

AnyThrew == \E i \in 1..Len(log) : log[i].threw

Summarized == pc \in {"batch_summary", "batch_done"}

(* C6: a batch run over N supported files in which some file raises: the  *)
(* summary has total = N and failed >= 1, and every other file has a      *)
(* result whose success is the one its own extraction returned.           *)
C6_TotalCountsEveryFile ==
    (Summarized /\ AnyThrew) =>
        /\ Summary.total = Len(files)
        /\ Summary.failed >= 1
        /\ \A i \in 1..Len(log) :
            ~log[i].threw =>
                \E j \in 1..Len(results) :
                    /\ results[j].file_name = FileName(files[i])
                    /\ results[j].success = log[i].success

(* C7: a batch run over at least one file attempts every file and reaches *)
(* its summary, whatever each file does: return a success, return a       *)
(* failure or raise.                                                      *)
C7_RunsToSummary ==
    (mode = "batch" /\ files # <<>>) ~> (pc = "batch_done" /\ Len(log) = Len(files))

C7_Witness ==
    /\ pc = "batch_done"
    /\ Len(files) >= 2
    /\ Len(log) = Len(files)
    /\ log[1].threw

(* C8: after a batch run, results holds one dict per file, in the order   *)
(* of enumeration, with success False for a file that raised.             *)
C8_OneResultPerFile ==
    Summarized =>
        /\ Len(results) = Len(files)
        /\ \A i \in 1..Len(results) :
            /\ results[i].file_name = FileName(files[i])
            /\ log[i].threw => ~results[i].success

(* C9: in a batch run the output file of a file is written exactly when   *)
(* its extraction returned success True: not for a failure, not for a     *)
(* file that raised.                                                      *)
C9_SavedIffSuccess ==
    mode = "batch" =>
        /\ \A i \in 1..Len(log) :
            /\ log[i].saved <=> (~log[i].threw /\ log[i].success)
            /\ log[i].saved => outputs[OutputPath(files[i])].written
        /\ pc = "return" => (calls.saved <=> result.success)
        /\ pc = "raise" => ~calls.saved
        /\ \A path \in OutputPaths :
            outputs[path].written =>
                \E i \in 1..Len(files) :
                    /\ OutputPath(files[i]) = path
                    /\ i <= Len(log) => log[i].saved
                    /\ i > Len(log) => (i = idx /\ calls.saved)

C9_Witness ==
    /\ pc = "batch_done"
    /\ \E i, j \in 1..Len(log) :
        /\ log[i].saved
        /\ ~log[j].saved /\ ~log[j].threw

(* C10: _extract_pdf reports and does not raise: the only exception that  *)
(* leaves the extraction of a PDF is the one for a file that is not       *)
(* there, and a PDF that is there ends with a dict returned.              *)
C10_PdfErrorsAreReported ==
    /\ [](IsPdf =>
            /\ exc \in {None, "FileNotFoundError"}
            /\ exc # None => (~calls.found \/ calls.stat_failed)
            /\ pc = "done" => result # NoResult)
    /\ (mode = "single" /\ IsPdf) ~>
            \/ pc = "done" /\ result # NoResult
            \/ pc = "crashed" /\ (~calls.found \/ calls.stat_failed)

C10_Witness ==
    /\ IsPdf
    /\ pc = "done"
    /\ calls.primary = "failed"
    /\ calls.secondary = "failed"
    /\ doc.ocr_known
    /\ ~doc.ocr.raster
    /\ result # NoResult

(* C11: the decision to escalate to OCR is a function of the text alone:  *)
(* each direct engine that completes goes on to OCR exactly when the      *)
(* length of its text after strip() is below 100, so it does at 99 and    *)
(* does not at 100; the two engines apply the same test.                  *)
C11_EscalationByStrippedLength ==
    /\ NeedsOcr(<<Ws(1), Ch(99), Ws(7)>>)
    /\ ~NeedsOcr(<<Ws(1), Ch(100), Ws(7)>>)
    /\ [][/\ (pc = "extract" /\ calls'.primary = "completed") =>
                (pc' = "primary_ocr" <=>
                    StrLen(Strip(calls'.primary_text)) < LowTextThreshold)
          /\ (pc = "pdf_secondary" /\ calls'.secondary = "completed") =>
                (pc' = "secondary_ocr" <=>
                    StrLen(Strip(calls'.secondary_text)) < LowTextThreshold)]_vars

C11_Witness ==
    /\ pc = "secondary_ocr"
    /\ calls.secondary = "completed"
    /\ StrLen(Strip(calls.secondary_text)) = LowTextThreshold - 1

(* C12: a PDF result that carries page_count has page_count equal to      *)
(* max(1, char_count div 3000) for the char_count of the same dict: 3 for *)
(* 9000 characters, 1 for 1 character, and never below 1.                 *)
C12_PageCountFromCharCount ==
    /\ _estimate_pages(<<Ch(9000)>>) = 3
    /\ _estimate_pages(<<Ch(1)>>) = 1
    /\ BuiltAtEnd =>
        /\ result.page_count >= 1
        /\ result.page_count =
                IF result.char_count \div 3000 >= 1 THEN result.char_count \div 3000
                ELSE 1

C12_Witness ==
    /\ BuiltAtEnd
    /\ pc = "done"
    /\ result.char_count = 9000
    /\ result.page_count = 3

PastSecondary ==
    \/ pc \in {"secondary_ocr", "pdf_last_resort", "last_resort_ocr", "pdf_result"}
    \/ Returned /\ (BuiltAtEnd \/ calls.secondary = "returned")

(* C15: the secondary engine (pypdf, when installed) is run when the      *)
(* primary engine raised out of its block or is not installed, and is not *)
(* run when the primary engine completed, even when its text was low and  *)
(* OCR was run on it.                                                     *)
C15_SecondaryOnlyAfterHardFailure ==
    IsPdf =>
        /\ (PastSecondary /\ PYPDF_AVAILABLE
                /\ (calls.primary = "failed" \/ ~PYMUPDF_AVAILABLE)) =>
                    calls.secondary # "not run"
        /\ calls.primary = "completed" => calls.secondary = "not run"

(* some direct engine completed with a low text, and so went on to OCR *)
Escalated ==
    \/ calls.primary = "completed" /\ NeedsOcr(calls.primary_text)
    \/ calls.secondary = "completed" /\ NeedsOcr(calls.secondary_text)

(* what _extract_pdf_with_ocr returns on the file *)
OcrText == _extract_pdf_with_ocr(doc.ocr)

(* C16: when a direct engine completes with a text whose stripped length  *)
(* is below 100, _extract_pdf_with_ocr is called, and the dict returned   *)
(* has that engine's tag with the OCR suffix as method and the OCR text   *)
(* as text.                                                               *)
C16_EscalationKeepsOcrText ==
    IsPdf =>
        /\ (Escalated /\ pc \notin {"primary_ocr", "secondary_ocr"}) => calls.ocr >= 1
        /\ (BuiltAtEnd /\ calls.primary = "completed" /\ NeedsOcr(calls.primary_text)) =>
                /\ result.method = "PyMuPDF + OCR"
                /\ result.text = Strip(OcrText)
        /\ (BuiltAtEnd /\ calls.primary # "completed"
                /\ calls.secondary = "completed" /\ NeedsOcr(calls.secondary_text)) =>
                /\ result.method = "pypdf + OCR"
                /\ result.text = Strip(OcrText)

(* the text carries characters of a page's text layer *)
HasPageText(t) == \E i \in 1..Len(t) : t[i].k = "ch" /\ t[i].v = "layer"

(* C17: after an escalation to OCR, the last resort (OCR alone) is taken  *)
(* only for a document from which no direct engine extracted any text and *)
(* whose text is still below 50 characters after strip(); a document from *)
(* which a direct engine extracted some text is not put through OCR a     *)
(* second time.                                                           *)
C17_LastResortOnlyWithoutDirectText ==
    (IsPdf /\ Escalated /\ calls.last_resort) =>
        /\ ~HasPageText(calls.primary_text)
        /\ ~HasPageText(calls.secondary_text)
        /\ pc = "last_resort_ocr" => StrLen(Strip(text)) < LastResortThreshold

(* the text t holds the marker of page i followed by the text body *)
HasPage(t, i, body) ==
    \E j \in 1..Len(t) :
        /\ t[j] = Mark(i)
        /\ j + 1 + Len(body) <= Len(t)
        /\ SubSeq(t, j + 2, j + 1 + Len(body)) = body

IsOcrError(t) == t # <<>> /\ t[1] = OcrErrorPrefix[1]

(* C18: a call of _extract_pdf_with_ocr in which convert_from_path        *)
(* succeeded returns, for every page that image_to_string recognized, the *)
(* marker of the page and its text, whatever happens on the other pages;  *)
(* it returns the OCR error only when convert_from_path raised.           *)
C18_OcrPageFailureIsAbsorbed ==
    [][(pc \in {"primary_ocr", "secondary_ocr", "last_resort_ocr"} /\ OCR_AVAILABLE) =>
            /\ doc'.ocr.raster =>
                    \A i \in 1..Len(doc'.ocr.pages) :
                        doc'.ocr.pages[i].ok => HasPage(text', i, doc'.ocr.pages[i].text)
            /\ IsOcrError(text') => ~doc'.ocr.raster]_vars

IsMark(x) == x.k = "mark"

(* the text t of a page loop over n pages, errs being the pages that      *)
(* failed: the markers of pages 1..n, one each, in ascending order, and   *)
(* the placeholder under the marker of a page exactly when it failed      *)
PagesInOrder(t, n, errs) ==
    LET marks == SelectSeq(t, IsMark)
    IN  /\ Len(marks) = n
        /\ \A k \in 1..n : marks[k].p = k
        /\ errs \subseteq 1..n
        /\ \A j \in 1..Len(t) :
                IsMark(t[j]) =>
                    (t[j].p \in errs <=>
                        (j + 2 <= Len(t) /\ t[j + 2] = PagePlaceholder[1]))

(* C19: the text a direct engine builds from a PDF of N pages holds the   *)
(* marker of each page 1..N exactly once, in ascending order, whichever   *)
(* pages fail; a page that fails has the placeholder under its marker and *)
(* the pages after it are extracted.                                      *)
C19_EveryPageHasItsMarker ==
    [][/\ (pc = "extract" /\ calls'.primary = "completed") =>
            PagesInOrder(calls'.primary_text, calls'.page - calls.page,
                         calls'.page_errors)
       /\ (pc = "pdf_secondary" /\ calls'.secondary = "completed") =>
            PagesInOrder(calls'.secondary_text, calls'.page - calls.page,
                         calls'.page_errors)]_vars

C19_Witness ==
    /\ IsPdf
    /\ calls.secondary = "completed"
    /\ calls.page_errors = {1}
    /\ Len(calls.secondary_text) = 8
    /\ calls.secondary_text[2] = Mark(1)
    /\ calls.secondary_text[4] = PagePlaceholder[1]
    /\ calls.secondary_text[6] = Mark(2)
    /\ calls.secondary_text[8] = Ch(84)

(* C20: every dict built at the end of _extract_pdf has a method, and the *)
(* method is the tag of the engine path whose text the dict carries: the  *)
(* text of the primary engine under "PyMuPDF", of the secondary engine    *)
(* under "pypdf", and the OCR text under the tags that name OCR.          *)
C20_MethodNamesTheSource ==
    BuiltAtEnd =>
        /\ result.method # None
        /\ result.method = "PyMuPDF" => result.text = Strip(calls.primary_text)
        /\ result.method = "pypdf" => result.text = Strip(calls.secondary_text)
        /\ result.method \in {"PyMuPDF + OCR", "pypdf + OCR", "OCR (Tesseract)"} =>
                result.text = Strip(OcrText)

(* C21: after a batch run the output directory holds, for each document   *)
(* whose dict has success True, a file of its own with the text of that   *)
(* document: no two documents of the run share an output file, two        *)
(* supported files with the same stem included.                           *)
C21_OneOutputPerSuccess ==
    Summarized =>
        \A j \in 1..Len(results) :
            results[j].success =>
                /\ results[j].output_file \in OutputPaths
                /\ outputs[results[j].output_file].written
                /\ outputs[results[j].output_file].content = results[j].text
                /\ \A k \in 1..Len(results) :
                        (k # j /\ results[k].success) =>
                            results[k].output_file # results[j].output_file

(* C22: the password is verified only on a document found encrypted: the  *)
(* incorrect-password outcome comes only from an encrypted document, and  *)
(* a PDF that is not encrypted never gets the password-required or the    *)
(* incorrect-password dict, whatever password is given.                   *)
C22_VerifiedOnlyWhenEncrypted ==
    IsPdf =>
        /\ calls.auth > 0 => (doc.encrypted /\ password # None)
        /\ calls.gate = "WrongCredential" =>
                (doc.encrypted /\ password # None /\ ~Authenticates(password))
        /\ calls.gate = "ProtectedLocked" => doc.encrypted
        /\ (~doc.encrypted /\ Returned) =>
                /\ result.text \notin {PasswordRequiredText, IncorrectPasswordText}
                /\ result.method # "Error"

C22_Witness ==
    /\ IsPdf
    /\ pc = "done"
    /\ ~doc.encrypted
    /\ password = "guess"
    /\ calls.gate = "NotProtected"
    /\ calls.auth = 0
    /\ calls.page > 0
    /\ result.success

(* the order of the steps of one extraction *)
Rank(p) ==
    CASE p = "extract_from_file" -> 0
      [] p = "extract" -> 1
      [] p = "primary_ocr" -> 2
      [] p = "pdf_secondary" -> 3
      [] p = "secondary_ocr" -> 4
      [] p = "pdf_last_resort" -> 5
      [] p = "last_resort_ocr" -> 6
      [] p = "pdf_result" -> 7
      [] p = "save" -> 8
      [] p \in {"return", "raise"} -> 9
      [] OTHER -> 10

(* C23: one extraction of a PDF calls _extract_pdf_with_ocr at most three *)
(* times (once for each direct engine's escalation, once as the last      *)
(* resort), never goes back to a step it has left, and comes to its end.  *)
C23_OcrRunsAreBounded ==
    /\ [](IsPdf => calls.ocr <= 3)
    /\ [][IsPdf => Rank(pc') > Rank(pc)]_vars
    /\ (IsPdf /\ pc = "extract") ~> (Returned \/ pc \in {"raise", "crashed"})

C23_Witness ==
    /\ IsPdf
    /\ pc = "done"
    /\ calls.ocr = 3
    /\ calls.primary = "completed"
    /\ calls.secondary = "completed"
    /\ calls.last_resort

(* the files whose processing has ended *)
Finished ==
    IF pc = "batch_extract" THEN 0
    ELSE IF Summarized THEN Len(files)
    ELSE idx - 1

Succeeded == Cardinality({i \in 1..Len(log) : ~log[i].threw /\ log[i].success})

(* C24: at every point of a batch run successful + failed is the number   *)
(* of files whose processing has ended: each file adds one to exactly one *)
(* counter, a file that raised to failed; at the end the sum is the       *)
(* number of supported files enumerated.                                  *)
C24_CountersAddUp ==
    (mode = "batch" /\ files # <<>>) =>
        /\ successful + failed = Finished
        /\ Len(log) = Finished
        /\ successful = Succeeded
        /\ Summarized => successful + failed = Len(files)

C24_Witness ==
    /\ pc = "batch_done"
    /\ Len(files) >= 2
    /\ successful >= 1
    /\ AnyThrew
    /\ successful + failed = Len(files)

====
